---- MODULE Spec2Model ----
(***************************************************************************)
(* Model of gh-notify's persisted cache store (internal/cache/cache.go)    *)
(* and of the sync cycle that drives it (cmd/sync.go).                     *)
(*                                                                         *)
(* Time is counted in whole hours.  A time.Time is an integer hour number, *)
(* the zero time.Time{} is ZeroTime, and a time.Duration is a number of    *)
(* hours.  A CacheEntry is modelled by the three fields the cache logic    *)
(* reads (ID, Timestamp, UpdatedAt), a StarEvent by ID and StarredAt; the  *)
(* remaining fields are payload that every operation copies unchanged.     *)
(***************************************************************************)
EXTENDS Integers, Sequences, FiniteSets

VARIABLES
    now,    \* the wall clock read by time.Now()
    c,      \* the in-memory Cache object
    file,   \* content of <cacheDir>/notifications.json
    op,     \* the last cache operation performed and its arguments
    ret,    \* the slice returned by the last merge operation
    client, \* the underlying api.GraphQLClient: what its Do can return
    do,     \* one execution of apiGraphQLClient.Do
    fs,     \* one execution of Client.fetchStarsForRepo
    pool,   \* one execution of Client.FetchRecentStars with its worker pool
    hub,    \* the stargazers GitHub holds for every repository of the user
    run     \* one execution of runSync, step by step

vars == <<now, c, file, op, ret, client, do, fs, pool, hub, run>>

cacheVars == <<now, c, file, op, ret>>

ghVars == <<client, do, fs, pool, hub, run>>

----------------------------------------------------------------------------
(* Program constants *)

DefaultMaxEntries == 500

MaxAge == 30 * 24

StarMaxAge == 7 * 24

CacheVersion == "1.0"

ZeroTime == -1

----------------------------------------------------------------------------
(* Bounds of the model *)

\* longest fetch result / event batch handed to a merge
MaxBatch == 2

\* largest MaxEntries a caller assigns to the exported field or writes into
\* the persisted document
MaxCap == 2

\* the clock counts hours; it is read on day 0, day 8 and day 38
Instants == {0, 8 * 24, 38 * 24}

IDs == {"a", "b", "c"}

\* source-provided updated_at of a notification
UpdatedAtOf(id) == IF id = "a" THEN 0 ELSE 24

\* source-provided starredAt of a star event
StarredAtOf(id) == CASE id = "a" -> 0 [] id = "b" -> 24 [] OTHER -> 48

----------------------------------------------------------------------------
(* Helpers on sequences *)

Range(s) == {s[i] : i \in 1..Len(s)}

SeqsUpTo(S, n) == UNION {[1..k -> S] : k \in 0..n}

IDsOf(s) == {s[i].ID : i \in 1..Len(s)}

RemoveAt(s, i) == SubSeq(s, 1, i - 1) \o SubSeq(s, i + 1, Len(s))

\* every arrangement of s in which the keys never increase; keys[i] is the
\* sort key of s[i]
RECURSIVE SortDesc(_, _)
SortDesc(s, keys) ==
    IF Len(s) = 0
    THEN {<<>>}
    ELSE UNION {{<<s[i]>> \o r : r \in SortDesc(RemoveAt(s, i), RemoveAt(keys, i))} :
                  i \in {k \in 1..Len(s) : \A j \in 1..Len(s) : keys[j] <= keys[k]}}

\* the sequences that list every element of S once
Arrangements(S) ==
    {s \in [1..Cardinality(S) -> S] : \A i, j \in 1..Cardinality(S) : s[i] = s[j] => i = j}

Prefix(s, n) == IF Len(s) > n THEN SubSeq(s, 1, n) ELSE s

Count(s, x) == Cardinality({i \in 1..Len(s) : s[i] = x})

\* s with only the first entry of every ID kept
RECURSIVE DedupByID(_)
DedupByID(s) ==
    IF Len(s) = 0
    THEN <<>>
    ELSE <<Head(s)>> \o DedupByID(SelectSeq(Tail(s), LAMBDA x : x.ID # Head(s).ID))

NoDuplicateIDs(s) == \A i, j \in 1..Len(s) : s[i].ID = s[j].ID => i = j

----------------------------------------------------------------------------
(* Inputs *)

\* what parseNotifications can return at time t: every entry is stamped
\* with the time of the fetch
FetchedEntry(id, t) == [ID |-> id, Timestamp |-> t, UpdatedAt |-> UpdatedAtOf(id)]

\* arguments a caller can hand to AddNotifications at time t
FetchResults(t) == SeqsUpTo({FetchedEntry(id, t) : id \in IDs}, MaxBatch)

\* what FetchNotifications returns at time t: each unread thread once, in
\* the order the API lists them
FetchNotifications(t) ==
    UNION {Arrangements({FetchedEntry(id, t) : id \in I}) : I \in SUBSET IDs}

FetchedStar(id) == [ID |-> id, StarredAt |-> StarredAtOf(id)]

\* arguments a caller can hand to AddStarEvents
StarBatches == SeqsUpTo({FetchedStar(id) : id \in IDs}, MaxBatch)

\* what FetchRecentStars returns: the events of the repositories, each once,
\* sorted newest first
FetchRecentStars ==
    UNION {{s \in Arrangements({FetchedStar(id) : id \in I}) :
              \A i, j \in 1..Len(s) : i < j => s[i].StarredAt >= s[j].StarredAt} :
           I \in SUBSET IDs}

----------------------------------------------------------------------------
(* internal/cache/cache.go *)

New ==
    [Version       |-> CacheVersion,
     LastSync      |-> ZeroTime,
     Notifications |-> <<>>,
     Stars         |-> <<>>,
     LastEventSync |-> ZeroTime,
     MaxEntries    |-> DefaultMaxEntries]

\* the ID set built in the "existing" map before the merge loop runs
existing(stored) == IDsOf(stored)

\* mutant: every fetched entry is reported as new
newNotificationsAll(cache, notifications) == notifications

newNotifications(cache, notifications) ==
    SelectSeq(notifications, LAMBDA n : n.ID \notin existing(cache.Notifications))

\* mutant: the fetch result is merged into the stored list instead of replacing it
AddNotificationsAccumulate(cache, notifications, t) ==
    [cache |-> [cache EXCEPT !.LastSync = t,
                             !.Notifications = cache.Notifications
                                                 \o newNotifications(cache, notifications)],
     ret   |-> newNotifications(cache, notifications)]

AddNotifications(cache, notifications, t) ==
    [cache |-> [cache EXCEPT !.LastSync = t, !.Notifications = notifications],
     ret   |-> newNotifications(cache, notifications)]

\* the map is filled once from the stored list and is not updated while
\* the batch is appended
newStarEvents(cache, starEvents) ==
    SelectSeq(starEvents, LAMBDA s : s.ID \notin existing(cache.Stars))

\* mutant: the stored list is replaced by the batch, as AddNotifications does
AddStarEventsReplace(cache, starEvents) ==
    [cache |-> [cache EXCEPT !.Stars = starEvents],
     ret   |-> newStarEvents(cache, starEvents)]

AddStarEvents(cache, starEvents) ==
    [cache |-> [cache EXCEPT !.Stars = cache.Stars \o newStarEvents(cache, starEvents)],
     ret   |-> newStarEvents(cache, starEvents)]

\* mutant: the age check of notifications is dropped
validEntriesNoAge(cache, t) == cache.Notifications

validEntries(cache, t) ==
    SelectSeq(cache.Notifications, LAMBDA e : t - e.Timestamp <= MaxAge)

\* mutant: < instead of <= in the age check of stars
validStarsStrict(cache, t) ==
    SelectSeq(cache.Stars, LAMBDA s : t - s.StarredAt < StarMaxAge)

validStars(cache, t) ==
    SelectSeq(cache.Stars, LAMBDA s : t - s.StarredAt <= StarMaxAge)

\* sort.Slice is not stable: any arrangement in which no later element is
\* "less" (here: After) than an earlier one can come out
SortByUpdatedAt(s) == SortDesc(s, [i \in 1..Len(s) |-> s[i].UpdatedAt])

\* mutant: Before instead of After in the comparison, oldest first
SortByStarredAtAscending(s) == SortDesc(s, [i \in 1..Len(s) |-> 0 - s[i].StarredAt])

SortByStarredAt(s) == SortDesc(s, [i \in 1..Len(s) |-> s[i].StarredAt])

\* the set of caches cleanup can leave behind
cleanup(cache, t) ==
    {[cache EXCEPT !.Notifications = Prefix(ns, cache.MaxEntries),
                   !.Stars         = Prefix(ss, cache.MaxEntries)] :
        ns \in SortByUpdatedAt(validEntries(cache, t)),
        ss \in SortByStarredAt(validStars(cache, t))}

\* mutant: the star list and its sync time are left alone
ClearNotificationsOnly(cache) ==
    [cache EXCEPT !.Notifications = <<>>, !.LastSync = ZeroTime]

Clear(cache) ==
    [cache EXCEPT !.Notifications = <<>>, !.Stars = <<>>,
                  !.LastSync = ZeroTime, !.LastEventSync = ZeroTime]

----------------------------------------------------------------------------
(* JSON document on disk *)

NoFile == [kind |-> "absent"]

\* a file of zero bytes: os.WriteFile opened it with O_TRUNC and wrote nothing
EmptyFile == [kind |-> "empty"]

\* a file that holds a proper prefix of a document: os.WriteFile wrote a part
\* of the data.  The document ends with its closing brace, so no proper
\* prefix of it is valid JSON
PartialFile == [kind |-> "partial"]

JNull == [kind |-> "null"]

JArray(s) == [kind |-> "array", items |-> s]

\* cleanup builds both lists in nil slices (var validEntries []CacheEntry),
\* so an empty list is a nil slice when Save marshals it and is written as
\* null; a non-empty list is written as an array
MarshalList(s) == IF Len(s) = 0 THEN JNull ELSE JArray(s)

Marshal(cache) ==
    [kind            |-> "doc",
     version         |-> cache.Version,
     last_sync       |-> cache.LastSync,
     notifications   |-> MarshalList(cache.Notifications),
     stars           |-> MarshalList(cache.Stars),
     last_event_sync |-> cache.LastEventSync,
     max_entries     |-> <<cache.MaxEntries>>]

\* json.Unmarshal of null into a slice field leaves the field as it is
UnmarshalList(j, old) == IF j.kind = "null" THEN old ELSE j.items

\* a key of the document is <<v>> when present with value v and <<>> when
\* the document does not have it; json.Unmarshal leaves the field of a
\* missing key as it is
UnmarshalInt(j, old) == IF j = <<>> THEN old ELSE j[1]

\* mutant: the Cache struct without the Stars and LastEventSync fields
UnmarshalWithoutStars(doc, cache) ==
    [Version       |-> doc.version,
     LastSync      |-> doc.last_sync,
     Notifications |-> UnmarshalList(doc.notifications, cache.Notifications),
     Stars         |-> cache.Stars,
     LastEventSync |-> cache.LastEventSync,
     MaxEntries    |-> UnmarshalInt(doc.max_entries, cache.MaxEntries)]

Unmarshal(doc, cache) ==
    [Version       |-> doc.version,
     LastSync      |-> doc.last_sync,
     Notifications |-> UnmarshalList(doc.notifications, cache.Notifications),
     Stars         |-> UnmarshalList(doc.stars, cache.Stars),
     LastEventSync |-> doc.last_event_sync,
     MaxEntries    |-> UnmarshalInt(doc.max_entries, cache.MaxEntries)]

\* mutant: a missing file is reported as a read error
LoadErrAbsentFails(f) ==
    IF f.kind \in {"absent", "empty", "partial"} THEN "failed to read cache file" ELSE "nil"

\* the error Load returns: nil for an absent file, the Unmarshal error for
\* a file that is not a JSON document
LoadErr(f) ==
    IF f.kind \in {"empty", "partial"} THEN "failed to unmarshal cache" ELSE "nil"

\* mutant: MaxEntries is taken from the document as it is
LoadNoDefault(cache, f) ==
    IF f = NoFile \/ LoadErr(f) # "nil" THEN cache ELSE Unmarshal(f, cache)

\* json.Unmarshal checks the whole input before it stores anything, so a
\* failed Load leaves the cache as it was
Load(cache, f) ==
    IF f = NoFile \/ LoadErr(f) # "nil"
    THEN cache
    ELSE LET u == Unmarshal(f, cache)
         IN IF u.MaxEntries = 0
            THEN [u EXCEPT !.MaxEntries = DefaultMaxEntries]
            ELSE u

\* the caches Save can leave in memory; the document written is their Marshal
Save(cache, t) == cleanup(cache, t)

\* what os.WriteFile(name, data, 0644) can leave in the file that held old:
\* it opens the file with O_WRONLY|O_CREATE|O_TRUNC and then writes data, so
\* a failure or a kill leaves old (the open failed), an empty file, a part
\* of data, or all of data
WriteFileOutcomes(old, data) == {old, EmptyFile, PartialFile, data}

----------------------------------------------------------------------------
(* internal/github/interfaces.go: the retrying GraphQL client.  Time is     *)
(* counted in seconds from the creation of the call's context.  An error   *)
(* message is the sequence of its fragments (words); the fragments are     *)
(* chosen so that every indicator phrase is a sequence of whole fragments. *)

maxRetries == 3

initialBackoff == 2

queryTimeout == 30

\* longest error message drawn, in fragments
MaxWords == 3

Words == {"rate", "limit", "abuse", "detection", "you", "have", "exceeded", "RATE", "timeout"}

\* the error messages the underlying client is tried with
Messages == SeqsUpTo(Words, MaxWords) \ {<<>>}

\* the times an underlying call can take
Durations == {0, 10, 35}

\* a nil error
Nil == [nil |-> TRUE]

\* errors.New(m)
Err(m) == [msg |-> m]

\* fmt.Errorf(prefix + ": %w", err)
Wrap(prefix, err) == Err(prefix \o err.msg)

ContextDeadlineExceeded == Err(<<"context", "deadline", "exceeded">>)

LowerWord(w) ==
    CASE w = "RATE" -> "rate"
      [] w = "LIMIT" -> "limit"
      [] w = "Y"    -> "y"
      [] w = "API"  -> "api"
      [] OTHER      -> w

\* strings.ToLower
ToLower(m) == [i \in 1..Len(m) |-> LowerWord(m[i])]

\* strings.Contains
Contains(m, phrase) ==
    \E i \in 1..(Len(m) - Len(phrase) + 1) : SubSeq(m, i, i + Len(phrase) - 1) = phrase

rateLimitIndicators ==
    {<<"rate", "limit">>,
     <<"api", "rate", "limit", "exceeded">>,
     <<"you", "have", "exceeded">>,
     <<"abuse", "detection">>,
     <<"secondary", "rate", "limit">>}

isRateLimitError(err) ==
    /\ err # Nil
    /\ \E indicator \in rateLimitIndicators : Contains(ToLower(err.msg), indicator)

\* mutant: not found is tested before permission
ClassifyGitHubErrorNotFoundFirst(err) ==
    IF err = Nil THEN "unknown"
    ELSE LET errStr == ToLower(err.msg)
             has(p) == Contains(errStr, p)
         IN IF has(<<"rate", "limit">>) \/ has(<<"abuse", "detection">>)
               THEN "rate_limit"
            ELSE IF has(<<"timeout">>) \/ has(<<"deadline", "exceeded">>)
               THEN "timeout"
            ELSE IF \/ has(<<"not", "found">>) \/ has(<<"404">>)
                    \/ has(<<"could", "not", "resolve">>)
               THEN "not_found"
            ELSE IF \/ has(<<"forbidden">>) \/ has(<<"unauthorized">>)
                    \/ has(<<"permission", "denied">>) \/ has(<<"403">>)
               THEN "permission"
            ELSE IF \/ has(<<"connection", "refused">>) \/ has(<<"no", "such", "host">>)
                    \/ has(<<"network">>)
               THEN "network"
            ELSE "unknown"

\* ClassifyGitHubError of the errors package
ClassifyGitHubError(err) ==
    IF err = Nil THEN "unknown"
    ELSE LET errStr == ToLower(err.msg)
             has(p) == Contains(errStr, p)
         IN IF has(<<"rate", "limit">>) \/ has(<<"abuse", "detection">>)
               THEN "rate_limit"
            ELSE IF has(<<"timeout">>) \/ has(<<"deadline", "exceeded">>)
               THEN "timeout"
            ELSE IF \/ has(<<"forbidden">>) \/ has(<<"unauthorized">>)
                    \/ has(<<"permission", "denied">>) \/ has(<<"403">>)
               THEN "permission"
            ELSE IF \/ has(<<"not", "found">>) \/ has(<<"404">>)
                    \/ has(<<"could", "not", "resolve">>)
               THEN "not_found"
            ELSE IF \/ has(<<"connection", "refused">>) \/ has(<<"no", "such", "host">>)
                    \/ has(<<"network">>)
               THEN "network"
            ELSE "unknown"

\* fragments of the messages ClassifyGitHubError is tried with: those of
\* its indicators, two of them in upper case too
ClassifyWords ==
    {"rate", "limit", "RATE", "LIMIT", "abuse", "detection",
     "timeout", "deadline", "exceeded",
     "forbidden", "unauthorized", "permission", "denied", "403",
     "not", "found", "404", "could", "resolve",
     "connection", "refused", "no", "such", "host", "network"}

\* the errors ClassifyGitHubError is tried with
ClassifyErrors == {Nil} \cup {Err(m) : m \in SeqsUpTo(ClassifyWords, MaxWords) \ {<<>>}}

\* the errors the underlying client returns in the runs with timing
UnderlyingErrors ==
    {Err(<<"API", "rate", "limit", "exceeded">>),
     Err(<<"secondary", "rate", "limit">>),
     Err(<<"repository", "not", "found">>)}

\* Do at its entry: ctx created, lastErr nil, backoff := initialBackoff,
\* attempt := 0.  calls, waits and outcomes record what the execution did:
\* the number of underlying calls, the backoff waits completed and the
\* results of the underlying calls
DoEntry ==
    [pc       |-> "loop",
     attempt  |-> 0,
     backoff  |-> initialBackoff,
     elapsed  |-> 0,
     lastErr  |-> Nil,
     calls    |-> 0,
     waits    |-> <<>>,
     outcomes |-> <<>>,
     result   |-> Nil]

\* whether <-ctx.Done() is ready: surely after the deadline, possibly at it
CtxDone(elapsed) ==
    IF elapsed > queryTimeout THEN {TRUE}
    ELSE IF elapsed = queryTimeout THEN {TRUE, FALSE}
    ELSE {FALSE}

\* mutant: the loop runs while attempt < maxRetries
DoCheckOffByOne(d) ==
    IF d.attempt >= maxRetries
    THEN {[d EXCEPT !.pc = "done",
                    !.result = Wrap(<<"failed", "after", "3", "retries", "due", "to",
                                      "rate", "limit", "ing:">>, d.lastErr)]}
    ELSE {IF done
          THEN [d EXCEPT !.pc = "done",
                         !.result = Wrap(<<"GraphQL", "query", "timeout", "after", "30s:">>,
                                         ContextDeadlineExceeded)]
          ELSE [d EXCEPT !.pc = "call"] : done \in CtxDone(d.elapsed)}

\* the loop condition and the select at the top of the loop body
DoCheck(d) ==
    IF d.attempt > maxRetries
    THEN {[d EXCEPT !.pc = "done",
                    !.result = Wrap(<<"failed", "after", "3", "retries", "due", "to",
                                      "rate", "limit", "ing:">>, d.lastErr)]}
    ELSE {IF done
          THEN [d EXCEPT !.pc = "done",
                         !.result = Wrap(<<"GraphQL", "query", "timeout", "after", "30s:">>,
                                         ContextDeadlineExceeded)]
          ELSE [d EXCEPT !.pc = "call"] : done \in CtxDone(d.elapsed)}

\* mutant: every error is retried
DoAttemptRetryAll(d, out, dur) ==
    LET base == [d EXCEPT !.elapsed = @ + dur, !.calls = @ + 1,
                          !.outcomes = Append(@, out)]
    IN IF out = Nil
       THEN [base EXCEPT !.pc = "done", !.result = Nil]
       ELSE IF d.attempt < maxRetries
       THEN [base EXCEPT !.lastErr = out, !.pc = "backoff"]
       ELSE [base EXCEPT !.lastErr = out, !.attempt = @ + 1, !.pc = "loop"]

\* the underlying call, which takes dur and returns out, and the handling of
\* its result.  The call does not take ctx: it runs to its end
DoAttempt(d, out, dur) ==
    LET base == [d EXCEPT !.elapsed = @ + dur, !.calls = @ + 1,
                          !.outcomes = Append(@, out)]
    IN IF out = Nil
       THEN [base EXCEPT !.pc = "done", !.result = Nil]
       ELSE IF ~isRateLimitError(out)
       THEN [base EXCEPT !.lastErr = out, !.pc = "done", !.result = out]
       ELSE IF d.attempt < maxRetries
       THEN [base EXCEPT !.lastErr = out, !.pc = "backoff"]
       ELSE [base EXCEPT !.lastErr = out, !.attempt = @ + 1, !.pc = "loop"]

\* mutant: the backoff is not doubled
DoWaitNoDoubling(d) ==
    LET fire     == d.elapsed + d.backoff
        waited   == [d EXCEPT !.elapsed = fire, !.waits = Append(@, d.backoff),
                               !.attempt = @ + 1, !.pc = "loop"]
        timedOut == [d EXCEPT !.elapsed = IF @ < queryTimeout THEN queryTimeout ELSE @,
                               !.pc = "done",
                               !.result = Wrap(<<"timeout", "while", "waiting", "for",
                                                 "retry:">>, ContextDeadlineExceeded)]
    IN (IF fire <= queryTimeout THEN {waited} ELSE {})
         \cup (IF fire >= queryTimeout THEN {timedOut} ELSE {})

\* the select between time.After(backoff) and ctx.Done(), then backoff *= 2
\* and attempt++; when both are ready at the same instant either is taken
DoWait(d) ==
    LET fire     == d.elapsed + d.backoff
        waited   == [d EXCEPT !.elapsed = fire, !.waits = Append(@, d.backoff),
                               !.backoff = 2 * @, !.attempt = @ + 1, !.pc = "loop"]
        timedOut == [d EXCEPT !.elapsed = IF @ < queryTimeout THEN queryTimeout ELSE @,
                               !.pc = "done",
                               !.result = Wrap(<<"timeout", "while", "waiting", "for",
                                                 "retry:">>, ContextDeadlineExceeded)]
    IN (IF fire <= queryTimeout THEN {waited} ELSE {})
         \cup (IF fire >= queryTimeout THEN {timedOut} ELSE {})

----------------------------------------------------------------------------
(* internal/github/stars.go: fetchStarsForRepo.  A star time is a number;  *)
(* the cursor of an edge, unique by GitHub, is the position of the edge in *)
(* the sequence of edges the server has returned.                          *)

maxPages == 10

\* most edges on one page
MaxEdges == 2

\* the cutoff handed to fetchStarsForRepo
since == 1

\* starredAt values: before the cutoff, at the cutoff, after the cutoff
StarTimes == {since - 1, since, since + 1}

\* the page responses of the server: the starredAt of the edges, in order,
\* and pageInfo.hasNextPage
Pages == [edges : SeqsUpTo(StarTimes, MaxEdges), hasNextPage : BOOLEAN]

\* fetchStarsForRepo at its entry: allStars and cursor nil, page := 0.
\* received, requests, lastPage and upstream record what the execution
\* did: the number of edges received, the number of page requests, the last
\* response, and the edges of all responses in the order received
FsEntry ==
    [pc       |-> "loop",
     page     |-> 0,
     cursor   |-> <<>>,
     allStars |-> <<>>,
     received |-> 0,
     requests |-> 0,
     lastPage |-> [edges |-> <<>>, hasNextPage |-> FALSE],
     upstream |-> <<>>,
     err      |-> Nil]

\* the edges of response p as star events: ID is the cursor of the edge
EdgesOf(f, p) ==
    [i \in 1..Len(p.edges) |-> [ID |-> f.received + i, StarredAt |-> p.edges[i]]]

\* mutant: an edge at the cutoff counts as new (not Before instead of After)
FirstOldNotBefore(edges) ==
    IF \E i \in 1..Len(edges) : edges[i] < since
    THEN CHOOSE i \in 1..Len(edges) :
            /\ edges[i] < since
            /\ \A j \in 1..(i - 1) : ~(edges[j] < since)
    ELSE Len(edges) + 1

\* the index of the first edge that is not After(since), Len + 1 if none
FirstOld(edges) ==
    IF \E i \in 1..Len(edges) : ~(edges[i] > since)
    THEN CHOOSE i \in 1..Len(edges) :
            /\ ~(edges[i] > since)
            /\ \A j \in 1..(i - 1) : edges[j] > since
    ELSE Len(edges) + 1

\* mutant: an old edge is skipped and the pagination goes on
ProcessPageIgnoreOld(f, p) ==
    LET evs  == [i \in 1..Len(p.edges) |-> [ID |-> f.received + i, StarredAt |-> p.edges[i]]]
        g    == [f EXCEPT !.allStars = @ \o SelectSeq(evs, LAMBDA e : e.StarredAt > since),
                          !.received = @ + Len(p.edges),
                          !.requests = @ + 1,
                          !.lastPage = p,
                          !.upstream = @ \o EdgesOf(f, p)]
    IN IF ~p.hasNextPage
       THEN [g EXCEPT !.pc = "done"]
       ELSE [g EXCEPT !.cursor = <<f.received + Len(p.edges)>>,
                      !.page = @ + 1,
                      !.pc = IF f.page + 1 < maxPages THEN "loop" ELSE "done"]

\* mutant: the page loop runs while page <= maxPages
ProcessPageCapOffByOne(f, p) ==
    LET firstOld     == FirstOld(p.edges)
        foundOldStar == firstOld <= Len(p.edges)
        g            == [f EXCEPT !.allStars = @ \o SubSeq(EdgesOf(f, p), 1, firstOld - 1),
                                  !.received = @ + Len(p.edges),
                                  !.requests = @ + 1,
                                  !.lastPage = p,
                                  !.upstream = @ \o EdgesOf(f, p)]
    IN IF foundOldStar \/ ~p.hasNextPage
       THEN [g EXCEPT !.pc = "done"]
       ELSE [g EXCEPT !.cursor = <<f.received + Len(p.edges)>>,
                      !.page = @ + 1,
                      !.pc = IF f.page + 1 <= maxPages THEN "loop" ELSE "done"]

\* one round of the page loop with response p: the edges are appended up to
\* the first one that is not After(since); the loop ends on such an edge,
\* on the last page, and when page reaches maxPages
ProcessPage(f, p) ==
    LET firstOld     == FirstOld(p.edges)
        foundOldStar == firstOld <= Len(p.edges)
        accepted     == SubSeq(EdgesOf(f, p), 1, firstOld - 1)
        g            == [f EXCEPT !.allStars = @ \o accepted,
                                  !.received = @ + Len(p.edges),
                                  !.requests = @ + 1,
                                  !.lastPage = p,
                                  !.upstream = @ \o EdgesOf(f, p)]
    IN IF foundOldStar \/ ~p.hasNextPage
       THEN [g EXCEPT !.pc = "done"]
       ELSE [g EXCEPT !.cursor = <<f.received + Len(p.edges)>>,
                      !.page = @ + 1,
                      !.pc = IF f.page + 1 < maxPages THEN "loop" ELSE "done"]

\* the page request failed with e: the stars collected so far are returned
\* with the wrapped error
RequestFailed(f, e) ==
    [f EXCEPT !.requests = @ + 1,
              !.pc = "done",
              !.err = Wrap(<<"failed", "to", "fetch", "stars", "for", "owner/repo:">>, e)]

----------------------------------------------------------------------------
(* FetchRecentStars and its worker pool, internal/github/stars.go *)

maxWorkers == 6

\* the largest number of repositories fetchUserRepositories returns
MaxRepos == 2

Workers == 1..maxWorkers

\* nameWithOwner of the i-th repository
RepoName(i) == <<"owner/repo", i>>

\* the star events fetchStarsForRepo can return for repository i: none or
\* one, newer than the cutoff, with the cursor of its edge as ID
RepoStars(i) ==
    {<<>>} \cup {<<[ID |-> <<i, 1>>, Repository |-> RepoName(i), StarredAt |-> t]>> :
                    t \in {since + 1, since + 2}}

\* what fetchStarsForRepo returns for repository i: the events and nil, or
\* the events collected before the failing page and the error
RepoOutcomes(i) ==
    [stars : RepoStars(i),
     err   : {Nil, Wrap(<<"failed", "to", "fetch", "stars", "for", "owner/repo:">>,
                        Err(<<"repository", "not", "found">>))}]

\* what GitHub answers during one FetchRecentStars: the repository list or
\* an error, and the outcome of the star fetch of every repository
PoolInputs ==
    {[err |-> Err(<<"network", "down">>), repos |-> <<>>, results |-> <<>>, trace |-> TRUE]}
    \cup UNION {[err     : {Nil},
                  trace   : {TRUE},
                  repos   : {[i \in 1..n |-> RepoName(i)]},
                  results : {r \in [1..n -> UNION {RepoOutcomes(i) : i \in 1..n}] :
                               \A i \in 1..n : r[i] \in RepoOutcomes(i)}] : n \in 0..MaxRepos}

\* more repositories than workers, and none: every fetchStarsForRepo returns
\* no event and no error. The run keeps no record of which worker took a job
ManyInputs ==
    {[err     |-> Nil,
      trace   |-> FALSE,
      repos   |-> [i \in 1..n |-> RepoName(i)],
      results |-> [i \in 1..n |-> [stars |-> <<>>, err |-> Nil]]] :
        n \in {0, maxWorkers + 1}}

\* mutant: an unbuffered channel
totalReposUnbuffered(repos) == 0

\* totalRepos := len(repos), the capacity of repoChan
totalRepos(repos) == Len(repos)

\* FetchRecentStars at its entry, about to call fetchUserRepositories; no
\* goroutine is started. handledBy and fetches record which workers received
\* a job (in a run with in.trace) and how often fetchStarsForRepo returned
\* for it
PoolEntry(in) ==
    [pc            |-> "repos",
     in            |-> in,
     repos         |-> <<>>,
     workers       |-> [w \in Workers |-> [st |-> "none", job |-> 0]],
     repoChan      |-> <<>>,
     cap           |-> 0,
     closed        |-> FALSE,
     sent          |-> 0,
     allStarEvents |-> <<>>,
     completed     |-> 0,
     handledBy     |-> <<>>,
     fetches       |-> <<>>,
     ret           |-> [events |-> <<>>, err |-> Nil]]

\* mutant: the error of fetchUserRepositories is dropped
ReposFetchedIgnoreError(p) ==
    [p EXCEPT !.pc      = "send",
              !.workers = [w \in Workers |-> [st |-> "recv", job |-> 0]]]

\* fetchUserRepositories has returned: on an error FetchRecentStars returns
\* nil and the error, else fetchStarsWithWorkerPool makes the channel and
\* starts maxWorkers goroutines, which wait in range repoChan
ReposFetched(p) ==
    IF p.in.err # Nil
    THEN [p EXCEPT !.pc  = "done",
                   !.ret = [events |-> <<>>,
                            err    |-> Wrap(<<"failed", "to", "fetch", "repositories:">>,
                                            p.in.err)]]
    ELSE [p EXCEPT !.pc        = "send",
                   !.repos     = p.in.repos,
                   !.cap       = totalRepos(p.in.repos),
                   !.workers   = [w \in Workers |-> [st |-> "recv", job |-> 0]],
                   !.handledBy = [i \in 1..Len(p.in.repos) |-> {}],
                   !.fetches   = [i \in 1..Len(p.in.repos) |-> 0]]

\* repoChan <- {name, index} for the next repository; the channel has room
\* for all of them
SendJob(p) ==
    [p EXCEPT !.repoChan = Append(@, p.sent + 1),
              !.sent     = @ + 1]

\* mutant: a worker that started a fetch takes the next job at once
CanReceiveWhileFetching(p, w) == p.workers[w].st \in {"recv", "fetch"}

\* worker w is at the head of its loop, for job := range repoChan
CanReceive(p, w) == p.workers[w].st = "recv"

\* mutant: the job stays in the channel
WorkerReceivePeek(p, w) ==
    LET i == Head(p.repoChan)
    IN [p EXCEPT !.workers[w]   = [st |-> "fetch", job |-> i],
                 !.handledBy[i] = IF p.in.trace THEN @ \cup {w} ELSE @]

\* worker w takes the next job from repoChan and calls fetchStarsForRepo
WorkerReceive(p, w) ==
    LET i == Head(p.repoChan)
    IN [p EXCEPT !.workers[w]   = [st |-> "fetch", job |-> i],
                 !.repoChan     = Tail(@),
                 !.handledBy[i] = IF p.in.trace THEN @ \cup {w} ELSE @]

\* mutant: the events returned with an error are appended too
WorkerDoneKeepPartial(p, w) ==
    LET i   == p.workers[w].job
        out == p.in.results[i]
    IN [p EXCEPT !.workers[w]    = [st |-> "recv", job |-> 0],
                 !.fetches[i]    = @ + 1,
                 !.completed     = @ + 1,
                 !.allStarEvents = @ \o out.stars]

\* mutant: a worker returns on the error of fetchStarsForRepo
WorkerDoneReturnOnError(p, w) ==
    LET i   == p.workers[w].job
        out == p.in.results[i]
        q   == [p EXCEPT !.fetches[i] = @ + 1,
                         !.completed  = @ + 1]
    IN IF out.err # Nil
       THEN [q EXCEPT !.workers[w] = [st |-> "exit", job |-> 0]]
       ELSE [q EXCEPT !.workers[w] = [st |-> "recv", job |-> 0],
                      !.allStarEvents = @ \o out.stars]

\* fetchStarsForRepo has returned to worker w: on an error the worker logs
\* and continues, else it appends the events under the mutex; then it waits
\* in range repoChan again
WorkerDone(p, w) ==
    LET i   == p.workers[w].job
        out == p.in.results[i]
        q   == [p EXCEPT !.workers[w] = [st |-> "recv", job |-> 0],
                         !.fetches[i] = @ + 1,
                         !.completed  = @ + 1]
    IN IF out.err # Nil
       THEN q
       ELSE [q EXCEPT !.allStarEvents = @ \o out.stars]

\* mutant: an empty result is reported as an error
ReturnSortedErrOnEmpty(p) ==
    {[p EXCEPT !.pc      = "done",
               !.workers = [w \in Workers |-> [st |-> "exit", job |-> 0]],
               !.ret     = [events |-> s,
                            err    |-> IF s = <<>> THEN Err(<<"no", "stars">>) ELSE Nil]] :
        s \in SortByStarredAt(p.allStarEvents)}

\* the channel is closed and drained and no worker is fetching: every worker
\* leaves its range loop, wg.Wait returns, and FetchRecentStars sorts the
\* events with sort.Slice and returns them
ReturnSorted(p) ==
    {[p EXCEPT !.pc      = "done",
               !.workers = [w \in Workers |-> [st |-> "exit", job |-> 0]],
               !.ret     = [events |-> s, err |-> Nil]] :
        s \in SortByStarredAt(p.allStarEvents)}

----------------------------------------------------------------------------
(* runSync step by step, cmd/sync.go, and the stargazers GitHub holds *)

\* the window of the first star sync, 4 * time.Hour
InitialWindow == 4

\* the sync runs executed one after the other
MaxCycles == 2

\* the star events GitHub holds at the end
MaxStars == 2

\* the user owns one repository during the sync runs
SyncRepos == {1}

\* the clock when the first run starts
StartTime == InitialWindow + 1

\* the k-th star of repository i, given at t; its cursor is the ID
StarEvent(i, k, t) == [ID |-> <<i, k>>, Repository |-> RepoName(i), StarredAt |-> t]

\* the stargazers of repository i before the first run: none, one who
\* starred exactly InitialWindow before it, or one who starred an hour later
HubStart(i) ==
    {<<>>,
     <<StarEvent(i, 1, StartTime - InitialWindow)>>,
     <<StarEvent(i, 1, StartTime - InitialWindow + 1)>>}

\* what fetchStarsForRepo collects from stargazers h ordered newest first,
\* when they fit the page cap: the edges starred after the cutoff t
StarsAfter(h, t) == SelectSeq(h, LAMBDA e : e.StarredAt > t)

\* what GitHub answers during the FetchRecentStars of a run: the repository
\* list or an error, and for every repository the stars after the cutoff
\* with nil or with an error
SyncInputs(h, t) ==
    {[err |-> Err(<<"network", "down">>), trace |-> FALSE, since |-> t,
      repos |-> <<>>, results |-> <<>>]}
    \cup {[err     |-> Nil,
           trace   |-> FALSE,
           since   |-> t,
           repos   |-> [i \in SyncRepos |-> RepoName(i)],
           results |-> [i \in SyncRepos |->
                          [stars |-> StarsAfter(h[i], t), err |-> e[i]]]] :
            e \in [SyncRepos ->
                     {Nil, Wrap(<<"failed", "to", "fetch", "stars", "for", "owner/repo:">>,
                                Err(<<"repository", "not", "found">>))}]}

\* mutant: the first-sync window is used in every run
EventCutoffAlwaysWindow(cache, t) == t - InitialWindow

\* cutoff := c.LastEventSync, or time.Now() minus 4 hours when it is zero
EventCutoff(cache, t) ==
    IF cache.LastEventSync = ZeroTime THEN t - InitialWindow ELSE cache.LastEventSync

\* mutant: the merge runs once the channel is closed
StarFetchReturnedEarly(p) == p.pc \in {"wait", "done"}

\* ghClient.FetchRecentStars(cutoff) has returned to runSync
StarFetchReturned(p) == p.pc = "done"

\* mutant: LastEventSync is left as it was loaded
MergeStarsKeepSync(cache, starEvents, t) ==
    LET r == AddStarEvents(cache, starEvents)
    IN [cache |-> r.cache, ret |-> r.ret]

\* recentStarEvents = c.AddStarEvents(starEvents), then
\* c.LastEventSync = time.Now().UTC()
MergeStars(cache, starEvents, t) ==
    LET r == AddStarEvents(cache, starEvents)
    IN [cache |-> [r.cache EXCEPT !.LastEventSync = t], ret |-> r.ret]

\* mutant: the error is kept and the run goes on to notify and save
FetchFailedContinue(r, err) == [r EXCEPT !.pc = "notify", !.err = err]

\* return fmt.Errorf(...) after a failed fetch
FetchFailed(r, err) == [r EXCEPT !.pc = "returned", !.err = err]

\* runSync before its first run.  cycle counts the runs; fileBefore is the
\* cache file when the run started; cutoff, cutoffAt and mergedAt are the
\* cutoff of the star fetch and the clock readings of lines 134 and 156;
\* notified lists the desktop notifications the run sent; newLog lists the
\* star events AddStarEvents returned as new, by run; missed holds the star
\* events of the repositories a run skipped; firstCutoff is the cutoff of
\* the first star fetch; clean says that no fetch has failed so far
RunEntry ==
    [pc               |-> "idle",
     cycle            |-> 0,
     err              |-> Nil,
     fileBefore       |-> NoFile,
     newNotifications |-> <<>>,
     recentStarEvents |-> <<>>,
     cutoff           |-> ZeroTime,
     cutoffAt         |-> ZeroTime,
     mergedAt         |-> ZeroTime,
     notified         |-> <<>>,
     newLog           |-> <<>>,
     missed           |-> {},
     firstCutoff      |-> ZeroTime,
     clean            |-> TRUE]

----------------------------------------------------------------------------
(* Actions *)

\* no sync cycle is being executed step by step
SyncIdle ==
    /\ hub = <<>>
    /\ run = [pc |-> "idle"]

\* no GraphQL call and no star fetch is being executed
GhIdle ==
    /\ client = [errs |-> {}, durations |-> {}]
    /\ do = [pc |-> "idle"]
    /\ fs = [pc |-> "idle"]
    /\ pool = [pc |-> "idle"]
    /\ SyncIdle

Init ==
    /\ now = 0
    /\ c = New
    /\ file = NoFile
    /\ op = [name |-> "New"]
    /\ ret = <<>>
    /\ GhIdle

\* c := New(""); c.MaxEntries = m, as the cache tests set the exported field
\* before they drive the cache
InitApi ==
    /\ now = 0
    /\ \E m \in {DefaultMaxEntries} \cup 1..MaxCap : c = [New EXCEPT !.MaxEntries = m]
    /\ file = NoFile
    /\ op = [name |-> "New"]
    /\ ret = <<>>
    /\ GhIdle

Tick ==
    /\ \E t \in Instants : t > now /\ now' = t
    /\ UNCHANGED <<c, file, op, ret>>
    /\ UNCHANGED ghVars

\* c := cache.New(dir); c.Load(dir)
CallLoad ==
    /\ c' = Load(New, file)
    /\ op' = IF op.name \in {"Save", "runSync"}
             THEN [name |-> "Load", afterSave |-> TRUE, saved |-> c,
                   err |-> LoadErr(file)]
             ELSE [name |-> "Load", afterSave |-> FALSE, err |-> LoadErr(file)]
    /\ ret' = <<>>
    /\ UNCHANGED <<now, file>>
    /\ UNCHANGED ghVars

CallSave ==
    /\ \E saved \in Save(c, now) :
          /\ c' = saved
          /\ file' = Marshal(saved)
    /\ op' = [name |-> "Save", before |-> c, at |-> now]
    /\ ret' = <<>>
    /\ UNCHANGED now
    /\ UNCHANGED ghVars

CallClear ==
    /\ c' = Clear(c)
    /\ op' = [name |-> "Clear", before |-> c]
    /\ ret' = <<>>
    /\ UNCHANGED <<now, file>>
    /\ UNCHANGED ghVars

\* a Save whose os.WriteFile fails or is killed: cleanup has run, the file
\* holds whatever the write left
SaveInterrupted ==
    /\ \E saved \in Save(c, now) :
          /\ c' = saved
          /\ \E f \in WriteFileOutcomes(file, Marshal(saved)) \ {Marshal(saved)} :
                file' = f
    /\ op' = [name |-> "SaveInterrupted", fileBefore |-> file, before |-> c, at |-> now]
    /\ ret' = <<>>
    /\ UNCHANGED now
    /\ UNCHANGED ghVars

CallAddNotifications ==
    /\ \E F \in FetchResults(now) :
          LET r == AddNotifications(c, F, now)
          IN /\ c' = r.cache
             /\ ret' = r.ret
             /\ op' = [name |-> "AddNotifications", arg |-> F,
                       beforeIDs |-> IDsOf(c.Notifications)]
    /\ UNCHANGED <<now, file>>
    /\ UNCHANGED ghVars

CallAddStarEvents ==
    /\ \E S \in StarBatches :
          LET r == AddStarEvents(c, S)
          IN /\ c' = r.cache
             /\ ret' = r.ret
             /\ op' = [name |-> "AddStarEvents", arg |-> S, before |-> c.Stars]
    /\ UNCHANGED <<now, file>>
    /\ UNCHANGED ghVars

\* one run of "gh-notify sync": Load, the notification phase unless
\* --stars-only, the star phase unless --exclude-stars, then Save, then the
\* waybar output under --waybar-output.  op.run alternates between
\* consecutive runs, so that a run is told from the one before it;
\* op.starFetches lists the calls of FetchRecentStars the run made, by call
\* site, op.at and op.lastEventSync are the clock and the loaded
\* LastEventSync of the run
RunSync(starsOnly, excludeStars, waybarOutput, F, S) ==
        LET loaded == Load(New, file)
            starPhase == ~excludeStars \/ starsOnly
            n  == IF ~starsOnly
                  THEN AddNotifications(loaded, F, now)
                  ELSE [cache |-> loaded, ret |-> <<>>]
            st == IF starPhase
                  THEN LET r == AddStarEvents(n.cache, S)
                       IN [cache |-> [r.cache EXCEPT !.LastEventSync = now],
                           ret   |-> r.ret]
                  ELSE [cache |-> n.cache, ret |-> <<>>]
        IN /\ LoadErr(file) = "nil"
           /\ \E saved \in Save(st.cache, now) :
                 /\ c' = saved
                 /\ file' = Marshal(saved)
           /\ op' = [name             |-> "runSync",
                     run              |-> IF op.name = "runSync" THEN 1 - op.run ELSE 0,
                     fetchedIDs       |-> IDsOf(n.cache.Notifications),
                     newNotifications |-> n.ret,
                     at               |-> now,
                     lastEventSync    |-> loaded.LastEventSync,
                     starPhase        |-> starPhase,
                     waybarOutput     |-> waybarOutput,
                     starFetches      |-> (IF starPhase THEN <<"eventSync">> ELSE <<>>)
                                          \o (IF waybarOutput THEN <<"tooltip">> ELSE <<>>)]
           /\ ret' = <<>>
           /\ UNCHANGED now
           /\ UNCHANGED ghVars

\* the lines the user can answer the confirmation prompt with, without the
\* newline
Responses == {"y", "Y", "yes", "n", ""}

\* strings.TrimSpace(strings.ToLower(response)) is "y" or "yes"
Confirmed(response) == LowerWord(response) \in {"y", "yes"}

\* one run of "gh-notify clear": Load; with no cached notification the
\* command reports an empty cache and returns; else the prompt unless
\* --force; then Clear and Save.  readErr: reading the answer fails
RunClear(force, response, readErr) ==
        LET loaded        == Load(New, file)
            notifications == loaded.Notifications
            out == CASE Len(notifications) = 0                -> "already empty"
                     [] ~force /\ readErr                     -> "failed to read input"
                     [] ~force /\ ~Confirmed(response)        -> "cancelled"
                     [] OTHER                                 -> "cleared"
        IN /\ LoadErr(file) = "nil"
           /\ IF out = "cleared"
              THEN \E saved \in Save(Clear(loaded), now) :
                      /\ c' = saved
                      /\ file' = Marshal(saved)
              ELSE /\ c' = loaded
                   /\ UNCHANGED file
           /\ op' = [name     |-> "runClear",
                     force    |-> force,
                     response |-> IF force \/ Len(notifications) = 0 THEN "" ELSE response,
                     out      |-> out,
                     err      |-> IF out = "failed to read input"
                                  THEN Err(<<"failed", "to", "read", "input:", "EOF">>)
                                  ELSE Nil,
                     before   |-> loaded]
           /\ ret' = <<>>
           /\ UNCHANGED now
           /\ UNCHANGED ghVars

\* the user edits max_entries in the persisted document, or removes the key
EditMaxEntries ==
    /\ file # NoFile
    /\ \E m \in {<<>>} \cup {<<k>> : k \in 0..MaxCap} :
          file' = [file EXCEPT !.max_entries = m]
    /\ op' = [name |-> "EditMaxEntries"]
    /\ ret' = <<>>
    /\ UNCHANGED <<now, c>>
    /\ UNCHANGED ghVars

\* the wrapped client is called once; the underlying client fails with the
\* errors of UnderlyingErrors or succeeds, each call taking one of Durations
InitDo ==
    /\ now = 0
    /\ c = New
    /\ file = NoFile
    /\ op = [name |-> "New"]
    /\ ret = <<>>
    /\ client = [errs |-> UnderlyingErrors, durations |-> Durations]
    /\ do = DoEntry
    /\ fs = [pc |-> "idle"]
    /\ pool = [pc |-> "idle"]
    /\ SyncIdle

\* the wrapped client is called once; the underlying client fails with one
\* message, any of Messages, or succeeds, at once
InitClassify ==
    /\ now = 0
    /\ c = New
    /\ file = NoFile
    /\ op = [name |-> "New"]
    /\ ret = <<>>
    /\ \E m \in Messages : client = [errs |-> {Err(m)}, durations |-> {0}]
    /\ do = DoEntry
    /\ fs = [pc |-> "idle"]
    /\ pool = [pc |-> "idle"]
    /\ SyncIdle

DoLoop ==
    /\ do.pc = "loop"
    /\ \E d \in DoCheck(do) : do' = d
    /\ UNCHANGED <<cacheVars, client, fs, pool, hub, run>>

DoCall ==
    /\ do.pc = "call"
    /\ \E out \in {Nil} \cup client.errs, dur \in client.durations :
          do' = DoAttempt(do, out, dur)
    /\ UNCHANGED <<cacheVars, client, fs, pool, hub, run>>

DoBackoff ==
    /\ do.pc = "backoff"
    /\ \E d \in DoWait(do) : do' = d
    /\ UNCHANGED <<cacheVars, client, fs, pool, hub, run>>

\* a cache in memory in the middle of a sync run: loaded from a file of
\* earlier runs with or without a notification, with or without the two
\* sync times set, before the star events are merged
InitMerge ==
    /\ now = 0
    /\ \E N \in {<<>>, <<FetchedEntry("a", 0)>>}, s, e \in {ZeroTime, 0} :
          c = [New EXCEPT !.Notifications = N, !.LastSync = s, !.LastEventSync = e]
    /\ file = NoFile
    /\ op = [name |-> "New"]
    /\ ret = <<>>
    /\ GhIdle

\* ClassifyGitHubError is about to be called with one of ClassifyErrors
InitClassifyError ==
    /\ now = 0
    /\ c = New
    /\ file = NoFile
    /\ \E e \in ClassifyErrors : op = [name |-> "classify", err |-> e]
    /\ ret = <<>>
    /\ GhIdle

\* errorType := ClassifyGitHubError(err)
CallClassifyGitHubError ==
    /\ op.name = "classify"
    /\ op' = [name |-> "ClassifyGitHubError", err |-> op.err]
    /\ ret' = <<ClassifyGitHubError(op.err)>>
    /\ UNCHANGED <<now, c, file>>
    /\ UNCHANGED ghVars

\* fetchStarsForRepo is called once
InitFetch ==
    /\ now = 0
    /\ c = New
    /\ file = NoFile
    /\ op = [name |-> "New"]
    /\ ret = <<>>
    /\ client = [errs |-> {Err(<<"repository", "not", "found">>)}, durations |-> {0}]
    /\ do = [pc |-> "idle"]
    /\ fs = FsEntry
    /\ pool = [pc |-> "idle"]
    /\ SyncIdle

\* c.graphqlClient.Do returns a page
FetchPage ==
    /\ fs.pc = "loop"
    /\ \E p \in Pages : fs' = ProcessPage(fs, p)
    /\ UNCHANGED <<cacheVars, client, do, pool, hub, run>>

\* c.graphqlClient.Do returns an error
FetchPageFails ==
    /\ fs.pc = "loop"
    /\ \E e \in client.errs : fs' = RequestFailed(fs, e)
    /\ UNCHANGED <<cacheVars, client, do, pool, hub, run>>

\* gh-notify sync --exclude-stars
SyncExcludeStars ==
    \E F \in FetchNotifications(now) : RunSync(FALSE, TRUE, FALSE, F, <<>>)

\* gh-notify sync --stars-only
SyncStarsOnly ==
    \E S \in FetchRecentStars : RunSync(TRUE, FALSE, FALSE, <<>>, S)

\* gh-notify sync --stars-only --waybar-output
SyncStarsOnlyWaybar ==
    \E S \in FetchRecentStars : RunSync(TRUE, FALSE, TRUE, <<>>, S)

\* gh-notify sync --exclude-stars --waybar-output
SyncExcludeStarsWaybar ==
    \E F \in FetchNotifications(now) : RunSync(FALSE, TRUE, TRUE, F, <<>>)

\* gh-notify clear --force
ClearForce ==
    \E force \in {TRUE} : RunClear(force, "", FALSE)

\* gh-notify clear, the prompt answered or the input closed
ClearPrompt ==
    \E response \in Responses, readErr \in BOOLEAN : RunClear(FALSE, response, readErr)

\* the command line program: sync runs of either phase, loads and saves of
\* the cache, edits of the persisted document
Next ==
    \/ Tick
    \/ SyncExcludeStars
    \/ SyncStarsOnly
    \/ CallLoad
    \/ CallSave
    \/ CallClear
    \/ EditMaxEntries

Spec == Init /\ [][Next]_vars

\* the cache API driven directly, notifications only
NextNotifs ==
    \/ Tick
    \/ CallLoad
    \/ CallSave
    \/ CallAddNotifications

SpecNotifs == InitApi /\ [][NextNotifs]_vars

\* consecutive runs of gh-notify sync --exclude-stars on one cache directory
NextSyncNotifs ==
    \/ Tick
    \/ SyncExcludeStars
    \/ EditMaxEntries

SpecSyncNotifs == Init /\ [][NextSyncNotifs]_vars

\* the cache API with Saves that fail or are killed while writing
NextSaveFaults ==
    \/ Tick
    \/ CallLoad
    \/ CallSave
    \/ SaveInterrupted
    \/ CallAddNotifications

SpecSaveFaults == InitApi /\ [][NextSaveFaults]_vars

\* the cache API driven directly, star events only
NextStars ==
    \/ Tick
    \/ CallLoad
    \/ CallSave
    \/ CallAddStarEvents

SpecStars == InitApi /\ [][NextStars]_vars

\* merges of star events
NextMerge ==
    \/ CallAddStarEvents

SpecMerge == InitMerge /\ [][NextMerge]_vars

\* one execution of apiGraphQLClient.Do
NextDo ==
    \/ DoLoop
    \/ DoCall
    \/ DoBackoff

SpecDo == InitDo /\ [][NextDo]_vars

SpecClassify == InitClassify /\ [][NextDo]_vars

\* one call of ClassifyGitHubError
NextClassifyError ==
    \/ CallClassifyGitHubError

SpecClassifyError == InitClassifyError /\ [][NextClassifyError]_vars

\* one execution of fetchStarsForRepo
NextFetch ==
    \/ FetchPage
    \/ FetchPageFails

SpecFetch == InitFetch /\ [][NextFetch]_vars

\* FetchRecentStars is called once
InitPool ==
    /\ now = 0
    /\ c = New
    /\ file = NoFile
    /\ op = [name |-> "New"]
    /\ ret = <<>>
    /\ client = [errs |-> {}, durations |-> {}]
    /\ do = [pc |-> "idle"]
    /\ fs = [pc |-> "idle"]
    /\ \E in \in PoolInputs : pool = PoolEntry(in)
    /\ SyncIdle

\* FetchRecentStars is called once, for no repository or for more
\* repositories than there are workers
InitPoolMany ==
    /\ now = 0
    /\ c = New
    /\ file = NoFile
    /\ op = [name |-> "New"]
    /\ ret = <<>>
    /\ client = [errs |-> {}, durations |-> {}]
    /\ do = [pc |-> "idle"]
    /\ fs = [pc |-> "idle"]
    /\ \E in \in ManyInputs : pool = PoolEntry(in)
    /\ SyncIdle

\* c.fetchUserRepositories() returns
FetchUserRepositories ==
    /\ pool.pc = "repos"
    /\ pool' = ReposFetched(pool)
    /\ UNCHANGED <<cacheVars, client, do, fs, hub, run>>

\* one round of the loop that sends the repositories to the workers
PoolSend ==
    /\ pool.pc = "send"
    /\ pool.sent < Len(pool.repos)
    /\ Len(pool.repoChan) < pool.cap
    /\ pool' = SendJob(pool)
    /\ UNCHANGED <<cacheVars, client, do, fs, hub, run>>

\* close(repoChan) after the last repository
PoolClose ==
    /\ pool.pc = "send"
    /\ pool.sent = Len(pool.repos)
    /\ pool' = [pool EXCEPT !.closed = TRUE, !.pc = "wait"]
    /\ UNCHANGED <<cacheVars, client, do, fs, hub, run>>

\* a worker waiting in range repoChan receives a job
PoolReceive ==
    /\ pool.pc \in {"send", "wait"}
    /\ pool.repoChan # <<>>
    /\ \E w \in Workers :
          /\ CanReceive(pool, w)
          /\ pool' = WorkerReceive(pool, w)
    /\ UNCHANGED <<cacheVars, client, do, fs, hub, run>>

\* fetchStarsForRepo returns to a worker
PoolWorkerDone ==
    /\ pool.pc \in {"send", "wait"}
    /\ \E w \in Workers :
          /\ pool.workers[w].st = "fetch"
          /\ pool' = WorkerDone(pool, w)
    /\ UNCHANGED <<cacheVars, client, do, fs, hub, run>>

\* wg.Wait() returns, then the sort and the return of FetchRecentStars
PoolReturn ==
    /\ pool.pc = "wait"
    /\ pool.repoChan = <<>>
    /\ \A w \in Workers : pool.workers[w].st # "fetch"
    /\ \E q \in ReturnSorted(pool) : pool' = q
    /\ UNCHANGED <<cacheVars, client, do, fs, hub, run>>

\* the first sync run is about to start
InitCycle ==
    /\ now = StartTime
    /\ c = New
    /\ file = NoFile
    /\ op = [name |-> "New"]
    /\ ret = <<>>
    /\ client = [errs |-> {}, durations |-> {}]
    /\ do = [pc |-> "idle"]
    /\ fs = [pc |-> "idle"]
    /\ pool = [pc |-> "idle"]
    /\ \E h \in [SyncRepos -> UNION {HubStart(i) : i \in SyncRepos}] :
          /\ \A i \in SyncRepos : h[i] \in HubStart(i)
          /\ hub = h
    /\ run = RunEntry

\* c := cache.New(cacheDir); c.Load(cacheDir)
SyncStart ==
    /\ run.pc \in {"idle", "returned"}
    /\ run.cycle < MaxCycles
    /\ LoadErr(file) = "nil"
    /\ c' = Load(New, file)
    /\ run' = [run EXCEPT !.pc               = "notifs",
                          !.cycle            = @ + 1,
                          !.err              = Nil,
                          !.fileBefore       = file,
                          !.newNotifications = <<>>,
                          !.recentStarEvents = <<>>,
                          !.notified         = <<>>]
    /\ UNCHANGED <<now, file, op, ret, client, do, fs, pool, hub>>

\* ghClient.FetchNotifications() returns an error, or the unread
\* notifications, which AddNotifications merges
SyncFetchNotifications ==
    /\ run.pc = "notifs"
    /\ \/ /\ run' = FetchFailed([run EXCEPT !.clean = FALSE],
                                Wrap(<<"failed", "to", "fetch", "notifications:">>,
                                     Err(<<"network", "down">>)))
          /\ UNCHANGED c
       \/ \E F \in {<<>>, <<FetchedEntry("a", now)>>} :
             LET r == AddNotifications(c, F, now)
             IN /\ c' = r.cache
                /\ run' = [run EXCEPT !.pc = "cutoff", !.newNotifications = r.ret]
    /\ UNCHANGED <<now, file, op, ret, client, do, fs, pool, hub>>

\* the cutoff is computed and ghClient.FetchRecentStars(cutoff) is called
SyncCallFetchRecentStars ==
    /\ run.pc = "cutoff"
    /\ LET cutoff == EventCutoff(c, now)
       IN /\ \E in \in SyncInputs(hub, cutoff) : pool' = PoolEntry(in)
          /\ run' = [run EXCEPT !.pc          = "fetch",
                                !.cutoff      = cutoff,
                                !.cutoffAt    = now,
                                !.firstCutoff = IF @ = ZeroTime THEN cutoff ELSE @]
    /\ UNCHANGED <<cacheVars, client, do, fs, hub>>

\* somebody stars repository i, an hour after the last clock reading; a
\* fetchStarsForRepo of the repository that has not returned yet sees it
StarOccurs ==
    /\ Cardinality(UNION {Range(hub[i]) : i \in SyncRepos}) < MaxStars
    /\ \E i \in SyncRepos :
          LET e == StarEvent(i, Len(hub[i]) + 1, now + 1)
          IN /\ hub' = [hub EXCEPT ![i] = <<e>> \o @]
             /\ pool' = IF /\ pool.pc \in {"repos", "send", "wait"}
                           /\ pool.in.err = Nil
                           /\ pool.pc = "repos" \/ pool.fetches[i] = 0
                        THEN [pool EXCEPT !.in.results[i].stars = <<e>> \o @]
                        ELSE pool
    /\ now' = now + 1
    /\ UNCHANGED <<c, file, op, ret, client, do, fs, run>>

\* FetchRecentStars has returned: on its error runSync returns, else the
\* events are merged and LastEventSync is set to the clock, an hour after
\* the last clock reading
SyncMergeStars ==
    /\ run.pc = "fetch"
    /\ StarFetchReturned(pool)
    /\ IF pool.ret.err # Nil
       THEN /\ run' = FetchFailed([run EXCEPT !.clean = FALSE],
                                  Wrap(<<"failed", "to", "fetch", "star", "events:">>,
                                       pool.ret.err))
            /\ UNCHANGED <<now, c>>
       ELSE LET r      == MergeStars(c, pool.ret.events, now + 1)
                failed == {i \in SyncRepos : pool.in.results[i].err # Nil}
            IN /\ now' = now + 1
               /\ c' = r.cache
               /\ run' = [run EXCEPT
                            !.pc               = "notify",
                            !.recentStarEvents = r.ret,
                            !.mergedAt         = now + 1,
                            !.newLog           = @ \o [k \in 1..Len(r.ret) |->
                                                         [cycle |-> run.cycle,
                                                          ID    |-> r.ret[k].ID]],
                            !.missed           = @ \cup
                                {[cycle |-> run.cycle, ev |-> e] :
                                    e \in UNION {Range(pool.in.results[i].stars) :
                                                   i \in failed}},
                            !.clean            = @ /\ failed = {}]
    /\ UNCHANGED <<file, op, ret, client, do, fs, pool, hub>>

\* SendBulkNotification for the new notifications and SendStarNotifications
\* for the new star events, each when there are any
SyncNotify ==
    /\ run.pc = "notify"
    /\ run' = [run EXCEPT
                 !.pc       = "save",
                 !.notified = (IF Len(run.newNotifications) > 0
                               THEN <<run.newNotifications>> ELSE <<>>)
                              \o (IF Len(run.recentStarEvents) > 0
                                  THEN <<run.recentStarEvents>> ELSE <<>>)]
    /\ UNCHANGED <<cacheVars, client, do, fs, pool, hub>>

\* c.Save(cacheDir) and the return of runSync
SyncSave ==
    /\ run.pc = "save"
    /\ \E saved \in Save(c, now) :
          /\ c' = saved
          /\ file' = Marshal(saved)
    /\ run' = [run EXCEPT !.pc = "returned"]
    /\ UNCHANGED <<now, op, ret, client, do, fs, pool, hub>>

\* sync runs and clear runs
NextClear ==
    \/ Tick
    \/ SyncExcludeStars
    \/ SyncStarsOnly
    \/ ClearForce
    \/ ClearPrompt

SpecClear == Init /\ [][NextClear]_vars

\* sync runs with the star phase or the waybar output
NextSyncStars ==
    \/ Tick
    \/ SyncStarsOnly
    \/ SyncStarsOnlyWaybar
    \/ SyncExcludeStarsWaybar

SpecSyncStars == Init /\ [][NextSyncStars]_vars

\* one execution of FetchRecentStars
NextPool ==
    \/ FetchUserRepositories
    \/ PoolSend
    \/ PoolClose
    \/ PoolReceive
    \/ PoolWorkerDone
    \/ PoolReturn

SpecPool == InitPool /\ [][NextPool]_vars

SpecPoolMany == InitPoolMany /\ [][NextPool]_vars

\* the sender and the workers are goroutines the Go scheduler keeps running,
\* and every fetchStarsForRepo returns
SpecPoolManyFair == InitPoolMany /\ [][NextPool]_vars /\ WF_vars(NextPool)

\* sync runs one after the other, step by step, while stars are given
NextCycle ==
    \/ SyncStart
    \/ SyncFetchNotifications
    \/ SyncCallFetchRecentStars
    \/ FetchUserRepositories
    \/ PoolSend
    \/ PoolClose
    \/ PoolReceive
    \/ PoolWorkerDone
    \/ PoolReturn
    \/ StarOccurs
    \/ SyncMergeStars
    \/ SyncNotify
    \/ SyncSave

SpecCycle == InitCycle /\ [][NextCycle]_vars

----------------------------------------------------------------------------
(* Properties *)

\* C1: after AddNotifications(F) the stored notification list is exactly F,
\* whatever was stored before.
C1_NotificationReplacement ==
    op.name = "AddNotifications" => c.Notifications = op.arg

\* an AddNotifications that dropped a stored ID and stored a non-empty F
C1_Witness ==
    /\ op.name = "AddNotifications"
    /\ op.arg # <<>>
    /\ op.beforeIDs \ IDsOf(op.arg) # {}
    /\ c.Notifications = op.arg

\* C2: AddNotifications(F) returns exactly the elements of F, in order, whose
\* ID was not stored before the call.
C2_NewSetCorrect ==
    op.name = "AddNotifications" =>
        /\ ret = SelectSeq(op.arg, LAMBDA n : n.ID \notin op.beforeIDs)
        /\ \A i \in 1..Len(ret) : ret[i].ID \notin op.beforeIDs
        /\ \A i \in 1..Len(op.arg) :
              op.arg[i].ID \notin op.beforeIDs => op.arg[i] \in Range(ret)

\* stored {A, B}, F = {B, C}: one fetched ID was stored, one was not, and one
\* stored ID is not fetched
C2_Witness ==
    /\ op.name = "AddNotifications"
    /\ Cardinality(op.beforeIDs) = 2
    /\ Cardinality(IDsOf(op.arg)) = 2
    /\ Cardinality(op.beforeIDs \cap IDsOf(op.arg)) = 1
    /\ Len(ret) = 1

\* C3: merging a batch leaves the stored star list equal to the previously
\* stored list followed by the batch, deduplicated by ID, so that F1 then F2
\* on an empty cache leaves the deduplicated union of F1 and F2; and merging
\* a batch whose IDs are all stored returns nothing and changes nothing.
C3_AccumulateDedup ==
    op.name = "AddStarEvents" =>
        /\ c.Stars = DedupByID(op.before \o op.arg)
        /\ IDsOf(op.arg) \subseteq IDsOf(op.before) =>
              (ret = <<>> /\ c.Stars = op.before)

\* C4: a notification whose ID was in the previous sync run's fetch result
\* and is in this run's fetch result is not in this run's new set.
C4_OnlyNewSurfaced ==
    [][(op.name = "runSync" /\ op'.name = "runSync" /\ op'.run # op.run) =>
          \A i \in 1..Len(op'.newNotifications) :
              op'.newNotifications[i].ID \notin op.fetchedIDs]_vars

\* C5: no two stored star events have the same ID.
C5_StarIDsUnique == NoDuplicateIDs(c.Stars)

\* C6: no two stored notifications have the same ID.
C6_NotificationIDsUnique == NoDuplicateIDs(c.Notifications)

\* C7: Save removes every star event starred more than 7 days before the
\* Save, and keeps every event at most 7 days old when these do not exceed
\* MaxEntries.
C7_StarAgeEviction ==
    op.name = "Save" =>
        LET old   == op.before.Stars
            young == SelectSeq(old, LAMBDA s : op.at - s.StarredAt <= 7 * 24)
        IN /\ \A i \in 1..Len(c.Stars) : op.at - c.Stars[i].StarredAt <= 7 * 24
           /\ \A i \in 1..Len(old) :
                 op.at - old[i].StarredAt > 7 * 24 => old[i] \notin Range(c.Stars)
           /\ Len(young) <= op.before.MaxEntries =>
                 \A x \in Range(young) : Count(c.Stars, x) = Count(young, x)

\* a Save that removed an event 8 days old and kept events 7 and 6 days old
C7_Witness ==
    /\ op.name = "Save"
    /\ \E i \in 1..Len(op.before.Stars) :
          /\ op.at - op.before.Stars[i].StarredAt = 8 * 24
          /\ op.before.Stars[i] \notin Range(c.Stars)
    /\ \E i \in 1..Len(c.Stars) : op.at - c.Stars[i].StarredAt = 7 * 24
    /\ \E i \in 1..Len(c.Stars) : op.at - c.Stars[i].StarredAt = 6 * 24

\* C8: when more than MaxEntries star events with pairwise distinct StarredAt
\* survive the age cutoff, Save leaves exactly the MaxEntries newest of them,
\* newest first.
C8_StarSizeEviction ==
    op.name = "Save" =>
        LET young == SelectSeq(op.before.Stars, LAMBDA s : op.at - s.StarredAt <= 7 * 24)
            m     == op.before.MaxEntries
        IN (/\ Len(young) > m
            /\ \A i, j \in 1..Len(young) :
                  i # j => young[i].StarredAt # young[j].StarredAt)
           => /\ Len(c.Stars) = m
              /\ \A i, j \in 1..Len(c.Stars) :
                    i < j => c.Stars[i].StarredAt > c.Stars[j].StarredAt
              /\ Range(c.Stars) \subseteq Range(young)
              /\ \A x \in Range(young) \ Range(c.Stars) :
                    \A y \in Range(c.Stars) : y.StarredAt > x.StarredAt

\* a Save that cut three surviving events with distinct times down to two
C8_Witness ==
    /\ op.name = "Save"
    /\ op.before.MaxEntries = 2
    /\ Len(op.before.Stars) = 3
    /\ \A i \in 1..3 : op.at - op.before.Stars[i].StarredAt <= 7 * 24
    /\ \A i, j \in 1..3 :
          i # j => op.before.Stars[i].StarredAt # op.before.Stars[j].StarredAt
    /\ Len(c.Stars) = 2

\* C9: after Save the stored notification list holds no entry fetched more
\* than 30 days before, has at most MaxEntries entries, holds the survivors
\* with the newest UpdatedAt, and is sorted newest first by UpdatedAt.
C9_NotificationEviction ==
    op.name = "Save" =>
        LET young == SelectSeq(op.before.Notifications,
                               LAMBDA e : op.at - e.Timestamp <= 30 * 24)
            m     == op.before.MaxEntries
            kept  == c.Notifications
        IN /\ \A i \in 1..Len(kept) : op.at - kept[i].Timestamp <= 30 * 24
           /\ Len(kept) <= m
           /\ Len(kept) = IF Len(young) > m THEN m ELSE Len(young)
           /\ \A x \in Range(kept) : Count(kept, x) <= Count(young, x)
           /\ \A x \in Range(young) :
                 Count(kept, x) < Count(young, x) =>
                    \A y \in Range(kept) : y.UpdatedAt >= x.UpdatedAt
           /\ \A i, j \in 1..Len(kept) :
                 i < j => kept[i].UpdatedAt >= kept[j].UpdatedAt

\* a Save that dropped entries fetched more than 30 days before
C9_Witness ==
    /\ op.name = "Save"
    /\ op.before.Notifications # <<>>
    /\ \A i \in 1..Len(op.before.Notifications) :
          op.at - op.before.Notifications[i].Timestamp > 30 * 24
    /\ c.Notifications = <<>>

\* C10: Load into a fresh cache right after a Save reproduces the cache as
\* Save left it: both lists, both sync times, MaxEntries and the version.
C10_RoundTrip ==
    (op.name = "Load" /\ op.afterSave) =>
        /\ c.Notifications = op.saved.Notifications
        /\ c.Stars = op.saved.Stars
        /\ c.LastSync = op.saved.LastSync
        /\ c.LastEventSync = op.saved.LastEventSync
        /\ c.MaxEntries = op.saved.MaxEntries
        /\ c = op.saved

\* a Load after a Save of a cache with notifications, stars, both sync times
\* set and a MaxEntries other than the default
C10_Witness ==
    /\ op.name = "Load"
    /\ op.afterSave
    /\ op.saved.Notifications # <<>>
    /\ Len(op.saved.Stars) >= 2
    /\ op.saved.LastSync # ZeroTime
    /\ op.saved.LastEventSync # ZeroTime
    /\ op.saved.MaxEntries # DefaultMaxEntries
    /\ c = op.saved

\* C11: the cache file holds a complete document (the previous or the new
\* one) or does not exist yet; it is never empty or partial, also when a
\* Save fails or is interrupted.
C11_SaveAtomic ==
    /\ file.kind \in {"absent", "doc"}
    /\ op.name = "SaveInterrupted" =>
          \/ file = op.fileBefore
          \/ \E saved \in Save(op.before, op.at) : file = Marshal(saved)

\* C12: Load on a directory without a cache file returns no error and leaves
\* the fresh empty cache: both lists empty, both sync times zero, MaxEntries
\* the default.
C12_LoadAbsentFile ==
    (op.name = "Load" /\ file = NoFile) =>
        /\ op.err = "nil"
        /\ c.Notifications = <<>>
        /\ c.Stars = <<>>
        /\ c.LastSync = ZeroTime
        /\ c.LastEventSync = ZeroTime
        /\ c.MaxEntries = 500

\* a Load that found no cache file
C12_Witness ==
    /\ op.name = "Load"
    /\ file = NoFile
    /\ op.err = "nil"
    /\ c = New

\* C13: after a successful Load MaxEntries is not zero; a document whose
\* max_entries is 0 or missing yields 500; and a Save never empties a list
\* that has entries within the retention window.
C13_MaxEntriesPopulated ==
    /\ (op.name = "Load" /\ op.err = "nil") => c.MaxEntries # 0
    /\ (op.name = "Load" /\ file.kind = "doc" /\ file.max_entries \in {<<>>, <<0>>})
          => c.MaxEntries = 500
    /\ op.name = "Save" =>
          /\ op.before.MaxEntries # 0
          /\ (\E i \in 1..Len(op.before.Notifications) :
                 op.at - op.before.Notifications[i].Timestamp <= 30 * 24)
                => c.Notifications # <<>>
          /\ (\E i \in 1..Len(op.before.Stars) :
                 op.at - op.before.Stars[i].StarredAt <= 7 * 24)
                => c.Stars # <<>>

\* a Load of a document with entries whose max_entries is 0
C13_Witness ==
    /\ op.name = "Load"
    /\ file.kind = "doc"
    /\ file.max_entries = <<0>>
    /\ c.Notifications # <<>>
    /\ c.MaxEntries = 500

\* C14: Clear empties both lists, zeroes both sync times, and leaves
\* MaxEntries and the version as they were.
C14_ClearResets ==
    op.name = "Clear" =>
        /\ c.Notifications = <<>>
        /\ c.Stars = <<>>
        /\ c.LastSync = ZeroTime
        /\ c.LastEventSync = ZeroTime
        /\ c.MaxEntries = op.before.MaxEntries
        /\ c.Version = op.before.Version

\* a Clear of a cache that held notifications and stars, with both sync
\* times set and a MaxEntries other than the default
C14_Witness ==
    /\ op.name = "Clear"
    /\ op.before.Notifications # <<>>
    /\ op.before.Stars # <<>>
    /\ op.before.LastSync # ZeroTime
    /\ op.before.LastEventSync # ZeroTime
    /\ op.before.MaxEntries # DefaultMaxEntries
    /\ c.Notifications = <<>>
    /\ c.Stars = <<>>
\* C15: when the underlying call fails twice with a rate-limit error and
\* then succeeds, the wrapped call returns success after exactly three
\* underlying calls, having waited 2 s and then 4 s, so that at least 6 s
\* have elapsed.
C15_RetryThenSuccess ==
    (/\ do.pc # "idle"
     /\ Len(do.outcomes) = 3
     /\ isRateLimitError(do.outcomes[1])
     /\ isRateLimitError(do.outcomes[2])
     /\ do.outcomes[3] = Nil)
    => /\ do.pc = "done"
       /\ do.result = Nil
       /\ do.calls = 3
       /\ do.waits = <<2, 4>>
       /\ do.elapsed >= 6

\* a call that returned success on its third attempt
C15_Witness ==
    /\ do.pc = "done"
    /\ do.result = Nil
    /\ do.calls = 3
    /\ do.outcomes = <<Err(<<"API", "rate", "limit", "exceeded">>),
                       Err(<<"API", "rate", "limit", "exceeded">>), Nil>>
    /\ do.waits = <<2, 4>>

\* C16: an attempt that fails with an error that is not rate-limit-shaped is
\* the last one: the wrapper returns that error, with no further underlying
\* call and no further wait, also after rate-limit failures.
C16_NonRateLimitImmediate ==
    do.pc # "idle" =>
        \A i \in 1..Len(do.outcomes) :
            (do.outcomes[i] # Nil /\ ~isRateLimitError(do.outcomes[i])) =>
                /\ i = Len(do.outcomes)
                /\ do.calls = i
                /\ do.pc = "done"
                /\ do.result = do.outcomes[i]
                /\ Len(do.waits) = i - 1

\* a call whose second attempt failed with "repository not found" after a
\* rate-limit failure
C16_Witness ==
    /\ do.pc = "done"
    /\ Len(do.outcomes) = 2
    /\ isRateLimitError(do.outcomes[1])
    /\ do.outcomes[2] = Err(<<"repository", "not", "found">>)
    /\ do.result = Err(<<"repository", "not", "found">>)
    /\ do.waits = <<2>>

\* C17: the wrapper never makes a 5th underlying call; when every attempt
\* failed with a rate-limit error and the call ended before the deadline,
\* it made 4 calls, waited 2 s, 4 s and 8 s, and returns the last error
\* wrapped with the retry count.
C17_RetriesExhausted ==
    do.pc # "idle" =>
        /\ do.calls <= 4
        /\ (/\ do.pc = "done"
            /\ do.elapsed < 30
            /\ do.outcomes # <<>>
            /\ \A i \in 1..Len(do.outcomes) : isRateLimitError(do.outcomes[i]))
           => /\ do.calls = 4
              /\ do.waits = <<2, 4, 8>>
              /\ do.lastErr = do.outcomes[4]
              /\ do.result = Err(<<"failed", "after", "3", "retries", "due", "to",
                                   "rate", "limit", "ing:">> \o do.outcomes[4].msg)

\* a call that gave up after four rate-limit failures, the last one with
\* another message than the first
C17_Witness ==
    /\ do.pc = "done"
    /\ do.calls = 4
    /\ do.elapsed < 30
    /\ \A i \in 1..4 : isRateLimitError(do.outcomes[i])
    /\ do.outcomes[4] # do.outcomes[1]
    /\ do.waits = <<2, 4, 8>>
    /\ do.result # Nil

\* C18: when more than 30 s have elapsed since the first attempt before the
\* wrapped call returns, it returns a timeout error; it never returns
\* success after the deadline.
C18_DeadlineEnforced ==
    (do.pc = "done" /\ do.elapsed > 30) =>
        /\ do.result # Nil
        /\ Contains(do.result.msg, <<"timeout">>)

\* C19: the wrapper retries after an error exactly when ClassifyGitHubError
\* puts the error in the category rate_limit.
C19_RetryIffRateLimit ==
    /\ \A e \in client.errs :
          isRateLimitError(e) <=> (ClassifyGitHubError(e) = "rate_limit")
    /\ do.pc = "backoff" => ClassifyGitHubError(do.lastErr) = "rate_limit"
    /\ (do.pc = "done" /\ do.lastErr # Nil /\ do.result = do.lastErr)
          => ClassifyGitHubError(do.lastErr) # "rate_limit"
\* C20: once a returned page holds an event that is not newer than the
\* cutoff, fetchStarsForRepo is done without error, whatever hasNextPage
\* says: it requests no further page, and no event that is not newer than
\* the cutoff is returned; a first page holding only one old event yields
\* no event after one request.
C20_PaginationEarlyExit ==
    (/\ fs.pc # "idle"
     /\ fs.requests > 0
     /\ fs.err = Nil
     /\ \E i \in 1..Len(fs.lastPage.edges) : fs.lastPage.edges[i] <= 1)
    => /\ fs.pc = "done"
       /\ \A i \in 1..Len(fs.allStars) : fs.allStars[i].StarredAt > 1
       /\ (fs.requests = 1 /\ Len(fs.lastPage.edges) = 1) => fs.allStars = <<>>

\* one request whose page holds one old event and reports another page
C20_Witness ==
    /\ fs.pc = "done"
    /\ fs.requests = 1
    /\ fs.lastPage = [edges |-> <<0>>, hasNextPage |-> TRUE]
    /\ fs.allStars = <<>>
    /\ fs.err = Nil

\* C21: fetchStarsForRepo returns only events strictly newer than the
\* cutoff; when the edges received are ordered newest first and the fetch
\* did not end at the page cap with more pages left, it returns every
\* received event strictly newer than the cutoff, with its cursor as ID, in
\* the order received.
C21_StrictlyNewerComplete ==
    fs.pc = "done" =>
        /\ \A i \in 1..Len(fs.allStars) : fs.allStars[i].StarredAt > 1
        /\ (/\ fs.err = Nil
            /\ \A i, j \in 1..Len(fs.upstream) :
                  i < j => fs.upstream[i].StarredAt >= fs.upstream[j].StarredAt
            /\ \/ ~fs.lastPage.hasNextPage
               \/ \E i \in 1..Len(fs.lastPage.edges) : fs.lastPage.edges[i] <= 1)
           => /\ fs.allStars = SelectSeq(fs.upstream, LAMBDA e : e.StarredAt > 1)
              /\ \A i \in 1..Len(fs.upstream) : fs.upstream[i].ID = i

\* two pages: new events, then a new event followed by one at the cutoff
C21_Witness ==
    /\ fs.pc = "done"
    /\ fs.err = Nil
    /\ fs.requests = 2
    /\ fs.lastPage.edges = <<2, 1>>
    /\ Len(fs.upstream) = 4
    /\ Len(fs.allStars) = 3
    /\ fs.allStars[3].ID = 3

\* C22: fetchStarsForRepo makes at most 10 page requests; when the 10th
\* page, like those before it, reports another page and holds only new
\* events, the fetch is done without error and returns the events collected.
C22_PageCap ==
    fs.pc # "idle" =>
        /\ fs.requests <= 10
        /\ (/\ fs.requests = 10
            /\ fs.err = Nil
            /\ fs.lastPage.hasNextPage
            /\ \A i \in 1..Len(fs.lastPage.edges) : fs.lastPage.edges[i] > 1)
           => /\ fs.pc = "done"
              /\ fs.allStars = fs.upstream

\* ten pages of new events, each reporting another page
C22_Witness ==
    /\ fs.pc = "done"
    /\ fs.err = Nil
    /\ fs.requests = 10
    /\ fs.lastPage.hasNextPage
    /\ Len(fs.allStars) >= 10
    /\ fs.allStars = fs.upstream

\* C23: when fetchUserRepositories returns an empty list, FetchRecentStars
\* returns an empty result and no error, and fetchStarsForRepo is never
\* called.
C23_EmptyRepoList ==
    (pool.pc # "idle" /\ pool.in.err = Nil /\ pool.in.repos = <<>>) =>
        /\ \A w \in Workers : pool.workers[w].st # "fetch"
        /\ pool.completed = 0
        /\ pool.pc = "done" => pool.ret = [events |-> <<>>, err |-> Nil]

\* FetchRecentStars has returned for an empty repository list
C23_Witness ==
    /\ pool.pc = "done"
    /\ pool.in.err = Nil
    /\ pool.in.repos = <<>>
    /\ pool.closed
    /\ pool.ret.events = <<>>

\* C24: when fetchUserRepositories fails, FetchRecentStars returns the error
\* and a nil result; no worker is started and fetchStarsForRepo is never
\* called.
C24_RepoListFails ==
    (pool.pc # "idle" /\ pool.in.err # Nil) =>
        /\ \A w \in Workers : pool.workers[w].st = "none"
        /\ pool.completed = 0
        /\ pool.sent = 0
        /\ pool.pc = "done" => (pool.ret.err # Nil /\ pool.ret.events = <<>>)

\* FetchRecentStars has returned the error of the repository list
C24_Witness ==
    /\ pool.pc = "done"
    /\ pool.in.err = Err(<<"network", "down">>)
    /\ pool.ret.err = Err(<<"failed", "to", "fetch", "repositories:", "network", "down">>)
    /\ \A w \in Workers : pool.workers[w].st = "none"

\* C25: whatever subset of the repositories fails in fetchStarsForRepo,
\* FetchRecentStars returns no error and the events of the repositories
\* that did not fail; no worker leaves its loop while the pool runs, and
\* every repository is fetched.
C25_FailuresSkipped ==
    (pool.pc # "idle" /\ pool.in.err = Nil) =>
        /\ pool.pc # "done" => \A w \in Workers : pool.workers[w].st # "exit"
        /\ pool.pc = "done" =>
              /\ pool.ret.err = Nil
              /\ \A i \in 1..Len(pool.repos) : pool.fetches[i] = 1
              /\ Range(pool.ret.events) =
                    UNION {Range(pool.in.results[i].stars) :
                             i \in {k \in 1..Len(pool.repos) : pool.in.results[k].err = Nil}}
              /\ Len(pool.ret.events) = Cardinality(Range(pool.ret.events))

\* the worker that got the error for the first repository fetched the
\* second one after it
C25_Witness ==
    /\ pool.pc = "done"
    /\ Len(pool.repos) = 2
    /\ pool.in.results[1].err # Nil
    /\ pool.in.results[1].stars # <<>>
    /\ pool.in.results[2].err = Nil
    /\ pool.handledBy[1] = pool.handledBy[2]
    /\ pool.ret.err = Nil
    /\ pool.ret.events = pool.in.results[2].stars
    /\ pool.ret.events # <<>>

\* every fetchStarsForRepo fails
C25_WitnessAllFail ==
    /\ pool.pc = "done"
    /\ Len(pool.repos) = 2
    /\ \A i \in 1..2 : pool.in.results[i].err # Nil /\ pool.fetches[i] = 1
    /\ pool.ret = [events |-> <<>>, err |-> Nil]

\* C26: every repository is received by exactly one worker and fetched
\* exactly once, whatever the interleaving of the sender and the workers.
C26_ExactlyOnce ==
    (pool.pc # "idle" /\ pool.in.err = Nil /\ pool.pc # "repos") =>
        \A i \in 1..Len(pool.repos) :
            /\ pool.fetches[i] <= 1
            /\ Cardinality(pool.handledBy[i]) <= 1
            /\ pool.pc = "done" =>
                  (pool.fetches[i] = 1 /\ Cardinality(pool.handledBy[i]) = 1)

\* two repositories fetched by two workers, the second one finishing first
C26_Witness ==
    /\ pool.pc = "done"
    /\ Len(pool.repos) = 2
    /\ pool.handledBy[1] # pool.handledBy[2]
    /\ \A i \in 1..2 : pool.in.results[i].err = Nil /\ pool.in.results[i].stars # <<>>
    /\ pool.allStarEvents = pool.in.results[2].stars \o pool.in.results[1].stars

\* C27: FetchRecentStars returns the events newest first, and the sequence
\* returned depends on what the repositories hold only: it is the events in
\* repository order, sorted by StarredAt with ties left in that order.
C27_NewestFirstDeterministic ==
    (pool.pc = "done" /\ pool.in.err = Nil) =>
        LET s == pool.ret.events
        IN /\ \A i, j \in 1..Len(s) : i < j => s[i].StarredAt >= s[j].StarredAt
           /\ \A i, j \in 1..Len(s) :
                 (i < j /\ s[i].StarredAt = s[j].StarredAt) => s[i].ID[1] < s[j].ID[1]

\* C28: a sync run whose loaded LastEventSync is not zero and less than one
\* hour before the run makes no star fetch in its star phase; a run with the
\* star phase whose loaded LastEventSync is zero or at least one hour old
\* makes it.
C28_StarFetchCooldown ==
    op.name = "runSync" =>
        IF op.lastEventSync # ZeroTime /\ op.at - op.lastEventSync < 1
        THEN \A i \in 1..Len(op.starFetches) : op.starFetches[i] # "eventSync"
        ELSE op.starPhase => \E i \in 1..Len(op.starFetches) : op.starFetches[i] = "eventSync"

\* C29: a sync run with --waybar-output calls FetchRecentStars at most once,
\* and never for the waybar text and tooltip.
C29_WaybarNoExtraFetch ==
    (op.name = "runSync" /\ op.waybarOutput) =>
        /\ Len(op.starFetches) <= 1
        /\ \A i \in 1..Len(op.starFetches) : op.starFetches[i] # "tooltip"

\* C30: after a clear run that returned no error, with --force or with the
\* prompt confirmed, the persisted cache loads as the empty cache: no
\* notifications, no star events, zero LastSync and LastEventSync.
C30_ClearEmptiesPersistedCache ==
    (/\ op.name = "runClear"
     /\ op.err = Nil
     /\ op.force \/ Confirmed(op.response)) =>
        /\ LoadErr(file) = "nil"
        /\ LET p == Load(New, file)
           IN /\ p.Notifications = <<>>
              /\ p.Stars = <<>>
              /\ p.LastSync = ZeroTime
              /\ p.LastEventSync = ZeroTime

\* C36: ClassifyGitHubError gives every error one category: the first of
\* rate_limit, timeout, permission, not_found, network of which the message,
\* read without regard to case, carries an indicator, and unknown for a nil
\* error and for a message with no indicator.
C36_ClassifyByPriority ==
    op.name = "ClassifyGitHubError" =>
        LET indicators ==
                <<[type |-> "rate_limit", phrases |-> {<<"rate", "limit">>, <<"abuse", "detection">>}],
                  [type |-> "timeout",    phrases |-> {<<"timeout">>, <<"deadline", "exceeded">>}],
                  [type |-> "permission", phrases |-> {<<"forbidden">>, <<"unauthorized">>,
                                                       <<"permission", "denied">>, <<"403">>}],
                  [type |-> "not_found",  phrases |-> {<<"not", "found">>, <<"404">>,
                                                       <<"could", "not", "resolve">>}],
                  [type |-> "network",    phrases |-> {<<"connection", "refused">>,
                                                       <<"no", "such", "host">>, <<"network">>}]>>
            lower(w) == IF w = "RATE" THEN "rate" ELSE IF w = "LIMIT" THEN "limit" ELSE w
            carries(k) == /\ op.err # Nil
                          /\ \E p \in indicators[k].phrases :
                                \E i \in 1..Len(op.err.msg) :
                                    /\ i + Len(p) - 1 <= Len(op.err.msg)
                                    /\ \A j \in 1..Len(p) : lower(op.err.msg[i + j - 1]) = p[j]
        IN /\ Len(ret) = 1
           /\ \A k \in 1..5 :
                 (carries(k) /\ \A h \in 1..(k - 1) : ~carries(h)) => ret[1] = indicators[k].type
           /\ (\A k \in 1..5 : ~carries(k)) => ret[1] = "unknown"

\* a message in upper case with the indicators of two categories
C36_Witness ==
    /\ op.name = "ClassifyGitHubError"
    /\ op.err = Err(<<"timeout", "RATE", "LIMIT">>)
    /\ ret = <<"rate_limit">>

\* a message with the indicators of permission and not_found
C36_WitnessPermission ==
    /\ op.name = "ClassifyGitHubError"
    /\ op.err = Err(<<"404", "forbidden">>)
    /\ ret = <<"permission">>

\* a nil error
C36_WitnessNil ==
    /\ op.name = "ClassifyGitHubError"
    /\ op.err = Nil
    /\ ret = <<"unknown">>

\* C35: a step of AddStarEvents keeps the stored star events at their
\* positions, appends the fetched events whose ID was not stored, in fetched
\* order, returns these, and leaves the notification list, LastSync,
\* LastEventSync, MaxEntries and the cache file unchanged.
C35_AddStarEventsFrame ==
    [][(op'.name = "AddStarEvents" /\ op' # op) =>
          LET tail == SelectSeq(op'.arg, LAMBDA s : \A i \in 1..Len(c.Stars) : c.Stars[i].ID # s.ID)
          IN /\ op'.before = c.Stars
             /\ Len(c'.Stars) = Len(c.Stars) + Len(tail)
             /\ \A i \in 1..Len(c.Stars) : c'.Stars[i] = c.Stars[i]
             /\ \A i \in 1..Len(tail) : c'.Stars[Len(c.Stars) + i] = tail[i]
             /\ ret' = tail
             /\ c'.Notifications = c.Notifications
             /\ c'.LastSync = c.LastSync
             /\ c'.LastEventSync = c.LastEventSync
             /\ c'.MaxEntries = c.MaxEntries
             /\ file' = file]_vars

\* a merge into a cache with notifications, stored stars and both sync
\* times set: one fetched event was stored, one is new
C35_Witness ==
    /\ op.name = "AddStarEvents"
    /\ c.Notifications # <<>>
    /\ c.LastSync # ZeroTime
    /\ c.LastEventSync # ZeroTime
    /\ op.before # <<>>
    /\ Len(op.arg) = 2
    /\ Len(ret) = 1
    /\ c.Stars = op.before \o ret

\* C33: at every moment of fetchStarsWithWorkerPool the accumulated events
\* are, as a multiset, the events of the repositories whose
\* fetchStarsForRepo has returned without error: each of them once, nothing
\* of a repository whose fetch returned an error.
C33_AccumulatorExact ==
    (pool.pc \in {"send", "wait", "done"} /\ pool.in.err = Nil) =>
        LET ok  == {i \in 1..Len(pool.repos) :
                      pool.fetches[i] >= 1 /\ pool.in.results[i].err = Nil}
            all == pool.allStarEvents
        IN /\ \A k \in 1..Len(all) :
                 /\ all[k].ID[1] \in ok
                 /\ Count(all, all[k]) = Count(pool.in.results[all[k].ID[1]].stars, all[k])
           /\ \A i \in ok : \A k \in 1..Len(pool.in.results[i].stars) :
                 Count(all, pool.in.results[i].stars[k]) = 1

\* two workers: the fetch of the first repository failed after a page of
\* events, the fetch of the second returned an event
C33_Witness ==
    /\ pool.pc = "done"
    /\ Len(pool.repos) = 2
    /\ pool.in.results[1].err # Nil
    /\ pool.in.results[1].stars # <<>>
    /\ pool.in.results[2].err = Nil
    /\ pool.in.results[2].stars # <<>>
    /\ pool.handledBy[1] # pool.handledBy[2]
    /\ pool.allStarEvents = pool.in.results[2].stars

\* C32: at every moment of fetchStarsWithWorkerPool at most maxWorkers (6)
\* calls of fetchStarsForRepo are in progress, whatever the number of
\* repositories: the jobs received and not completed are the jobs of the
\* workers inside a fetch.
C32_AtMostMaxWorkers ==
    pool.pc \in {"send", "wait", "done"} =>
        LET inProgress == pool.sent - Len(pool.repoChan) - pool.completed
        IN /\ inProgress <= maxWorkers
           /\ inProgress = Cardinality({w \in Workers : pool.workers[w].st = "fetch"})

\* seven repositories: six fetches are in progress and the seventh job
\* waits in the channel
C32_Witness ==
    /\ Len(pool.repos) = 7
    /\ Cardinality({w \in Workers : pool.workers[w].st = "fetch"}) = 6
    /\ pool.sent - Len(pool.repoChan) - pool.completed = 6
    /\ pool.repoChan = <<7>>

\* C37: fetchStarsWithWorkerPool terminates when every fetchStarsForRepo
\* returns: the send to repoChan never blocks, the channel is closed after
\* the last send, and FetchRecentStars returns after every repository was
\* fetched, for no repository and for more repositories than workers.
C37_PoolTerminates ==
    /\ [](pool.pc = "send" /\ pool.sent < Len(pool.repos) =>
              Len(pool.repoChan) < pool.cap)
    /\ [](pool.closed => pool.sent = Len(pool.repos))
    /\ <>[](/\ pool.pc = "done"
            /\ pool.closed
            /\ pool.completed = Len(pool.repos)
            /\ \A w \in Workers : pool.workers[w].st = "exit")

\* the pool has returned for seven repositories
C37_Witness ==
    /\ pool.pc = "done"
    /\ Len(pool.repos) = 7
    /\ pool.completed = 7
    /\ \A w \in Workers : pool.workers[w].st = "exit"

\* the pool has returned for no repository
C37_WitnessZero ==
    /\ pool.pc = "done"
    /\ pool.in.err = Nil
    /\ pool.repos = <<>>
    /\ pool.closed
    /\ \A w \in Workers : pool.workers[w].st = "exit"

\* C31: the cutoff runSync passes to FetchRecentStars is the LastEventSync
\* it loaded when that is not zero, and the clock minus 4 hours when it is
\* zero; after a star fetch without error LastEventSync is the clock reading
\* made after the fetch, and the Save of the run persists it.
C31_EventCutoff ==
    LET loaded == Load(New, run.fileBefore).LastEventSync
    IN /\ run.pc = "fetch" =>
             /\ pool.in.since = run.cutoff
             /\ run.cutoff = IF loaded # ZeroTime THEN loaded ELSE run.cutoffAt - 4
       /\ run.pc \in {"notify", "save"} =>
             /\ c.LastEventSync = run.mergedAt
             /\ run.cutoffAt < run.mergedAt
             /\ run.mergedAt <= now
       /\ (run.pc = "returned" /\ run.err = Nil) =>
             Load(New, file).LastEventSync = run.mergedAt

\* the first run: nothing was loaded, the cutoff is 4 hours before the
\* clock, and the star given exactly 4 hours before is not fetched
C31_Witness ==
    /\ run.pc = "fetch"
    /\ run.cycle = 1
    /\ Load(New, run.fileBefore).LastEventSync = ZeroTime
    /\ run.cutoff = run.cutoffAt - 4
    /\ \E k \in 1..Len(hub[1]) : hub[1][k].StarredAt = run.cutoff
    /\ pool.in.err = Nil
    /\ pool.in.results[1].stars = <<>>

\* the second run: the cutoff is the LastEventSync the first run saved
C31_WitnessSubsequent ==
    /\ run.pc = "fetch"
    /\ run.cycle = 2
    /\ Load(New, run.fileBefore).LastEventSync # ZeroTime
    /\ run.cutoff = Load(New, run.fileBefore).LastEventSync
    /\ run.cutoff # now - 4

\* a run has returned and the file holds the LastEventSync it set
C31_WitnessPersisted ==
    /\ run.pc = "returned"
    /\ run.err = Nil
    /\ run.mergedAt # ZeroTime
    /\ Load(New, file).LastEventSync = run.mergedAt

\* C34: while FetchRecentStars has not returned, that is while a worker
\* can be running, no step changes the cache or the cache file: the merge
\* of the star events, the update of LastEventSync and Save come after the
\* return, and no step of a worker touches the cache.
C34_CacheUntouchedDuringFetch ==
    [][pool.pc \in {"repos", "send", "wait"} => (c' = c /\ file' = file)]_vars

\* a worker is inside fetchStarsForRepo while the cache holds the
\* notifications the run merged and has not saved
C34_Witness ==
    /\ run.pc = "fetch"
    /\ pool.pc = "wait"
    /\ \E w \in Workers : pool.workers[w].st = "fetch"
    /\ run.newNotifications # <<>>
    /\ c.Notifications # Load(New, file).Notifications

\* the star events were merged after FetchRecentStars returned
C34_WitnessMerged ==
    /\ run.pc = "notify"
    /\ pool.pc = "done"
    /\ \A w \in Workers : pool.workers[w].st = "exit"
    /\ run.recentStarEvents # <<>>
    /\ c.LastEventSync = run.mergedAt

\* C38: a run whose notification fetch or star fetch returned an error
\* returns the error, has sent no desktop notification and has not written
\* the cache file, which is as it was when the run started.
C38_FetchErrorWritesNothing ==
    (run.pc = "returned" /\ run.err # Nil) =>
        /\ run.notified = <<>>
        /\ file = run.fileBefore
        /\ Load(New, file) = Load(New, run.fileBefore)

\* the star fetch failed after the run had merged a new notification in
\* memory: the file does not hold it
C38_Witness ==
    /\ run.pc = "returned"
    /\ run.err # Nil
    /\ pool.pc = "done"
    /\ pool.ret.err # Nil
    /\ run.newNotifications # <<>>
    /\ c.Notifications # <<>>
    /\ Load(New, file).Notifications = <<>>

\* the notification fetch of the second run failed: the file is the one
\* the first run saved
C38_WitnessNotifications ==
    /\ run.pc = "returned"
    /\ run.cycle = 2
    /\ run.err = Wrap(<<"failed", "to", "fetch", "notifications:">>,
                      Err(<<"network", "down">>))
    /\ file # NoFile
    /\ file = run.fileBefore

\* C39: a star phase without error sets LastEventSync to the clock, also
\* when a repository failed and was skipped; the star events of the skipped
\* repository are older than the new LastEventSync and no later run returns
\* them as new.
C39_SkippedEventsNeverNew ==
    /\ (run.pc \in {"notify", "save"} /\ pool.in.err = Nil) =>
          /\ c.LastEventSync = run.mergedAt
          /\ \A i \in SyncRepos :
                pool.in.results[i].err # Nil =>
                   \A k \in 1..Len(pool.in.results[i].stars) :
                      pool.in.results[i].stars[k].StarredAt < c.LastEventSync
    /\ run.pc # "idle" =>
          \A m \in run.missed :
             \A k \in 1..Len(run.newLog) :
                run.newLog[k].cycle >= m.cycle => run.newLog[k].ID # m.ev.ID

\* the first run skipped the repository, which had a star after the cutoff;
\* the second run fetched the repository without error and the star is not
\* in the cache
C39_Witness ==
    /\ run.pc = "returned"
    /\ run.cycle = 2
    /\ run.err = Nil
    /\ pool.in.err = Nil
    /\ pool.in.results[1].err = Nil
    /\ pool.fetches[1] = 1
    /\ \E m \in run.missed :
          /\ m.cycle = 1
          /\ m.ev \in Range(hub[1])
          /\ m.ev.StarredAt > run.firstCutoff
          /\ m.ev.StarredAt < c.LastEventSync
          /\ m.ev.ID \notin IDsOf(c.Stars)

\* C40: when no fetch has failed, every star given after the cutoff of the
\* first run and before the LastEventSync of the last run was returned as
\* new by AddStarEvents in exactly one run, also when it was given while
\* the fetch of a run was in progress.
C40_NoStarEventLost ==
    (run.pc = "returned" /\ run.err = Nil /\ run.clean) =>
        \A i \in SyncRepos : \A k \in 1..Len(hub[i]) :
            (/\ hub[i][k].StarredAt > run.firstCutoff
             /\ hub[i][k].StarredAt <= c.LastEventSync) =>
                Cardinality({j \in 1..Len(run.newLog) :
                               run.newLog[j].ID = hub[i][k].ID}) = 1

====
